---------------------------- MODULE Spec2Model ----------------------------
(***************************************************************************)
(* Caching and streaming layer of the crypto-indicators dashboard.         *)
(*                                                                         *)
(*   snapshot route   src/unnamed/part_001  (GET /api/indices)             *)
(*   history route    src/src/app/api/indices/[id]/history/route.ts        *)
(*   shared cache     src/src/lib/cache.ts  (one NodeCache instance)       *)
(*   stream route     src/src/app/error.tsx lines 34-239 (GET /api/socket) *)
(*   client hook      src/unnamed/part_005 lines 1-158 (useLiveBitcoin)    *)
(*                                                                         *)
(* Time is counted in seconds.  A route handler is split at its `await` of *)
(* the upstream call: the part before it and the part after it each run to *)
(* completion (one JavaScript thread), other handlers may run in between.  *)
(***************************************************************************)
EXTENDS Integers, Sequences, FiniteSets, TLC

VARIABLES
    now,                 \* Date.now(), in seconds
    route,               \* environment: the route this run's clients request
    cache,               \* NodeCache data: key -> entry [v, t] or Absent
    requestCount,        \* part_001:33
    requestWindowStart,  \* part_001:34
    pendingSnap,         \* snapshot handlers suspended in `await axios.get`
    pendingHist,         \* per history id, handlers suspended in `await axios.get`
    lastResp,            \* the most recent HTTP response produced
    lastCause,           \* observer: how the upstream call behind lastResp ended
                         \*   ("none": lastResp was produced without one)
    missesInWindow,      \* observer: snapshot Fresh misses since the last window reset
    callsInWindow,       \* observer: snapshot upstream calls since the last window reset
    lastOk,              \* observer: the most recent successful upstream call
    everOk,              \* observer: per resource, has an upstream call succeeded
    histCallsNow,        \* observer: upstream calls started for the history id
                         \*   HistWatched since the clock last advanced
    freshAt,             \* observer: per resource, when its last successful call wrote
                         \*   Fresh, or -1 once CACHE_TTL has elapsed since
    lastFetchTime,       \* error.tsx:58
    cachedBTCData,       \* error.tsx:59
    st,                  \* per connection: "idle", "first" (start() awaits the first
                         \*   fetchAndSendPrice), "live" (timers scheduled), "failed"
    isClosed,            \* per connection, error.tsx:73
    intervalId,          \* per connection, error.tsx:72: "null", "set", "cleared"
    beat,                \* per connection, heartbeatId: "null", "set", "cleared"
    ctrl,                \* per connection, the stream controller: "open", "closed"
                         \*   (cancelled by the client), "errored" (enqueue throws
                         \*   though cancel() has not run)
    call,                \* per connection: `now` of the fetchAndSendPrice suspended in
                         \*   `await axios.get`, or -1
    nextPoll,            \* per connection: when the poll timer fires next
    nextBeat,            \* per connection: when the heartbeat timer fires next
    tick,                \* observer: per connection, its last completed fetchAndSendPrice
                         \*   (cur: it started at the present clock value; poll: the
                         \*   poll timer started it; res: how its upstream call ended;
                         \*   held: lastGood when its frames were written)
    lastCallAt,          \* observer: start of the most recent stream upstream call, or
                         \*   -1 once MIN_FETCH_INTERVAL has elapsed since
    unhandled,           \* observer: a fetchAndSendPrice ended with an exception
    log,                 \* observer: per connection, the types of the first two
                         \*   frames written to it and the number of connected frames
    lastGood,            \* observer: the value of the stream upstream call that was
                         \*   the latest to succeed, or Null
    hookSt,              \* the component using the hook: "init" (rendered, effect not
                         \*   yet run), "mounted", "unmounted" (effect cleanup has run)
    sources,             \* the EventSource objects created, in order: "none" (not
                         \*   created), "connecting", "open", "closed"
    eventSourceRef,      \* part_005:40: index into sources, 0 for null
    timeouts,            \* the setTimeout set by the onerror of each source: its due
                         \*   time, or -1 (none pending)
    reconnectTimeoutRef, \* part_005:41: index into timeouts, 0 for null
    isConnected,         \* part_005:35
    reconnects,          \* manual reconnect() calls made so far
    reachable            \* environment: from now on no connection fails

fetchVars == <<route, cache, requestCount, requestWindowStart, pendingSnap, pendingHist,
               lastResp, lastCause, missesInWindow, callsInWindow, lastOk, everOk, freshAt,
               histCallsNow>>

streamVars == <<lastFetchTime, cachedBTCData, st, isClosed, intervalId, beat, ctrl, call,
                nextPoll, nextBeat, tick, lastCallAt, unhandled, log, lastGood>>

hookVars == <<hookSt, sources, eventSourceRef, timeouts, reconnectTimeoutRef,
              isConnected, reconnects, reachable>>

vars == <<now, fetchVars, streamVars, hookVars>>

-----------------------------------------------------------------------------
(* Bounds of the model *)

MaxTime == 240       \* the clock stops here
MaxPending == 2      \* upstream calls in flight at once
MaxOver == 1         \* counters are followed up to the limit plus this
MaxStreamTime == 30  \* the clock of the stream runs stops here
MaxConns == 2        \* stream connections opened in a run
MaxSources == 5      \* EventSource objects a hook creates in a run
MaxReconnects == 2   \* manual reconnect() calls in a run
MaxHookTime == 30    \* the clock of the hook runs stops here

(* Program constants *)

CACHE_TTL == 120                 \* seconds
MAX_REQUESTS_PER_MINUTE == 20
RATE_LIMIT_WINDOW == 60          \* 60000 ms

MIN_FETCH_INTERVAL == 10         \* 10000 ms
POLL_INTERVAL == 10              \* 10000 ms
HEARTBEAT_INTERVAL == 30         \* 30000 ms
AXIOS_TIMEOUT == 8               \* 8000 ms

RECONNECT_DELAY == 5             \* 5000 ms

StreamStep == 5                  \* clock advance of the stream runs
HookStep == 5                    \* largest clock advance of the hook runs
FetchSteps == {20, 60}              \* clock advances of the request/response routes

-----------------------------------------------------------------------------
(* Cache keys.  A key is a string; it is held as the sequence of its pieces *)
(* so that template strings are concatenations.                             *)

CACHE_KEY == <<"crypto_indices">>
STALE_CACHE_KEY == <<"crypto_indices", "_stale">>

Ids == {<<"bitcoin">>, <<"bitcoin", "_stale">>}

HistKey(id) == <<"history_">> \o id
HistStaleKey(id) == (<<"history_">> \o id) \o <<"_stale">>

Keys == {CACHE_KEY, STALE_CACHE_KEY}
          \cup {HistKey(id) : id \in Ids} \cup {HistStaleKey(id) : id \in Ids}

\* the history id whose upstream calls the observer histCallsNow counts
HistWatched == <<"bitcoin">>

\* a resource is the snapshot (SnapId) or a history id
SnapId == <<>>
Resources == {SnapId} \cup Ids

FreshKeyOf(r) == IF r = SnapId THEN CACHE_KEY ELSE HistKey(r)
StaleKeyOf(r) == IF r = SnapId THEN STALE_CACHE_KEY ELSE HistStaleKey(r)

-----------------------------------------------------------------------------
(* NodeCache (stdTTL 120, deleteOnExpire): lazy expiry on get, ttl 0 = never *)

Absent == [t |-> -1]
Undefined == [undef |-> TRUE]

Live(e) == e # Absent /\ ~(e.t # 0 /\ e.t < now)

CacheGet(c, key) == IF Live(c[key]) THEN c[key].v ELSE Undefined

\* get deletes the entry it finds expired
CacheTouch(c, key) == IF Live(c[key]) THEN c ELSE [c EXCEPT ![key] = Absent]

CacheSet(c, key, value, ttl) ==
    [c EXCEPT ![key] = [v |-> value, t |-> IF ttl = 0 THEN 0 ELSE now + ttl]]

\* the periodic check (checkperiod) deletes every expired entry
CacheSweep(c) == [k \in Keys |-> IF Live(c[k]) THEN c[k] ELSE Absent]

-----------------------------------------------------------------------------
(* Upstream outcomes.  A 2xx answer carries a JSON body; a body may lack    *)
(* the expected fields (shape "other").  JSON bodies are objects or arrays, *)
(* so every body is truthy in the handlers' `if (cachedData)` tests.        *)

Failures == {"e429", "e5xx", "timeout"}

SnapBodies == {[shape |-> "coins", ver |-> 1], [shape |-> "coins", ver |-> 2],
               [shape |-> "other", ver |-> 0]}

HistBodies(id) == {[shape |-> "chart", prices |-> <<id, 1>>],
                   [shape |-> "chart", prices |-> <<id, 2>>],
                   [shape |-> "other", prices |-> <<>>]}

\* route.ts:48-50  result = { prices: response.data.prices }
HistResult(body) ==
    IF body.shape = "chart" THEN [prices |-> body.prices] ELSE [prices |-> <<"undefined">>]

\* how a 2xx answer compares with the shape the endpoint is expected to return
SnapCause(data) == IF data.shape = "coins" THEN "ok" ELSE "malformed"
HistCause(body) == IF body.shape = "chart" THEN "ok" ELSE "malformed"

NoResp == [kind |-> "none"]
NoOk == [id |-> <<"none">>]

Resp(id, kind, status, data, cached, stale, message) ==
    [id |-> id, kind |-> kind, status |-> status, data |-> data,
     cached |-> cached, stale |-> stale, message |-> message]

Pending == pendingSnap + pendingHist[<<"bitcoin">>] + pendingHist[<<"bitcoin", "_stale">>]

\* observer: a successful call for r wrote its Fresh entry less than CACHE_TTL ago
TtlLive(r) == freshAt[r] >= 0 /\ now - freshAt[r] < CACHE_TTL

-----------------------------------------------------------------------------
(* Stream route: connections, upstream answers and frames *)

Conns == 1..MaxConns

Null == [null |-> TRUE]

\* 2xx bodies of the simple/price endpoint: { bitcoin: { usd, usd_24h_change } }
\* (a field is held as a sequence: empty when the body lacks it)
StreamBodies == {[bitcoin |-> TRUE, usd |-> <<50000>>, chg |-> <<2>>],
                 [bitcoin |-> TRUE, usd |-> <<>>, chg |-> <<>>],
                 [bitcoin |-> FALSE, usd |-> <<>>, chg |-> <<>>]}

\* error.tsx:127-131
BtcData(body) ==
    [price |-> IF body.usd = <<>> THEN 0 ELSE body.usd[1],
     change24h |-> IF body.chg = <<>> THEN 0 ELSE body.chg[1]]

PriceFrame(d, cached) ==
    [type |-> "price_update", price |-> d.price, change24h |-> d.change24h,
     cached |-> cached]

Frame(type) == [type |-> type]

NoTick == [cur |-> FALSE, poll |-> FALSE, called |-> FALSE, frames |-> <<>>,
           threw |-> FALSE, res |-> "none", held |-> Null]

\* the frame types of a sequence of frames
Types(frames) == [i \in DOMAIN frames |-> frames[i].type]

NoLog == [first |-> "none", second |-> "none", connected |-> 0]

\* the log of a connection once frames of these types have been written to it
Written(l, types) ==
    LET known == IF l.first = "none" THEN <<>>
                 ELSE IF l.second = "none" THEN <<l.first>>
                 ELSE <<l.first, l.second>>
        all == known \o types
    IN  [first |-> IF Len(all) >= 1 THEN all[1] ELSE "none",
         second |-> IF Len(all) >= 2 THEN all[2] ELSE "none",
         connected |-> l.connected
                         + Cardinality({i \in DOMAIN types : types[i] = "connected"})]

StreamVarsInit ==
    /\ lastFetchTime = 0
    /\ cachedBTCData = Null
    /\ st = [c \in Conns |-> "idle"]
    /\ isClosed = [c \in Conns |-> FALSE]
    /\ intervalId = [c \in Conns |-> "null"]
    /\ beat = [c \in Conns |-> "null"]
    /\ ctrl = [c \in Conns |-> "open"]
    /\ call = [c \in Conns |-> -1]
    /\ nextPoll = [c \in Conns |-> -1]
    /\ nextBeat = [c \in Conns |-> -1]
    /\ tick = [c \in Conns |-> NoTick]
    /\ lastCallAt = -1
    /\ unhandled = FALSE
    /\ log = [c \in Conns |-> NoLog]
    /\ lastGood = Null

-----------------------------------------------------------------------------
FetchVarsInit ==
    /\ cache = [k \in Keys |-> Absent]
    /\ requestCount = 0
    /\ requestWindowStart = 0
    /\ pendingSnap = 0
    /\ pendingHist = [id \in Ids |-> 0]
    /\ lastResp = NoResp
    /\ lastCause = "none"
    /\ missesInWindow = 0
    /\ callsInWindow = 0
    /\ lastOk = NoOk
    /\ everOk = [r \in Resources |-> FALSE]
    /\ freshAt = [r \in Resources |-> -1]
    /\ histCallsNow = 0

SourceIds == 1..MaxSources

HookVarsInit ==
    /\ hookSt = "init"
    /\ sources = [i \in SourceIds |-> "none"]
    /\ eventSourceRef = 0
    /\ timeouts = [i \in SourceIds |-> -1]
    /\ reconnectTimeoutRef = 0
    /\ isConnected = FALSE
    /\ reconnects = 0
    /\ reachable = FALSE

Init ==
    /\ now = 0
    /\ route \in {"snapshot", "history"}
    /\ FetchVarsInit
    /\ StreamVarsInit
    /\ HookVarsInit

StreamInit ==
    /\ now = 0
    /\ route = "stream"
    /\ FetchVarsInit
    /\ StreamVarsInit
    /\ HookVarsInit

HookInit ==
    /\ now = 0
    /\ route = "hook"
    /\ FetchVarsInit
    /\ StreamVarsInit
    /\ HookVarsInit

-----------------------------------------------------------------------------
(* Snapshot route, part_001:38-99: from entry to the upstream call *)

SnapFreshHit(fresh) ==
    /\ lastResp' = Resp(SnapId, "fresh", 200, fresh, TRUE, FALSE, "")
    /\ lastCause' = "none"
    /\ UNCHANGED <<cache, requestCount, requestWindowStart, pendingSnap,
                   missesInWindow, callsInWindow>>

SnapThrottled(c1, cnt, win, misses, calls, stale) ==
    /\ misses <= MAX_REQUESTS_PER_MINUTE + 1 + MaxOver
    /\ cache' = CacheTouch(c1, STALE_CACHE_KEY)
    /\ requestCount' = cnt
    /\ requestWindowStart' = win
    /\ lastResp' = Resp(SnapId, "throttled", 200, stale, TRUE, TRUE,
                        "Rate limit protection: serving cached data")
    /\ lastCause' = "none"
    /\ missesInWindow' = misses
    /\ callsInWindow' = calls
    /\ UNCHANGED pendingSnap

SnapCall(c1, cnt, win, misses, calls, limitHit) ==
    /\ Pending < MaxPending
    /\ cnt < MAX_REQUESTS_PER_MINUTE + MaxOver
    /\ cache' = IF limitHit THEN CacheTouch(c1, STALE_CACHE_KEY) ELSE c1
    /\ requestCount' = cnt + 1
    /\ requestWindowStart' = win
    /\ pendingSnap' = pendingSnap + 1
    /\ missesInWindow' = misses
    /\ callsInWindow' = calls + 1
    /\ UNCHANGED <<lastResp, lastCause>>

\* part_001:41-81: cache check, then the limit check
SnapRoute(fresh, c1, cnt, win, misses, calls, limitHit, stale) ==
    IF fresh # Undefined
      THEN SnapFreshHit(fresh)
      ELSE IF limitHit /\ stale # Undefined
              THEN SnapThrottled(c1, cnt, win, misses, calls, stale)
              ELSE SnapCall(c1, cnt, win, misses, calls, limitHit)

\* as SnapStart, with the window never reset
SnapStartNoReset ==
    LET fresh == CacheGet(cache, CACHE_KEY)
        c1 == CacheTouch(cache, CACHE_KEY)
        cnt == requestCount
        win == requestWindowStart
        misses == missesInWindow + 1
        calls == callsInWindow
        limitHit == cnt >= MAX_REQUESTS_PER_MINUTE
        stale == CacheGet(c1, STALE_CACHE_KEY)
    IN  /\ route = "snapshot"
        /\ SnapRoute(fresh, c1, cnt, win, misses, calls, limitHit, stale)
        /\ UNCHANGED <<now, route, pendingHist, lastOk, everOk, freshAt, histCallsNow>>

SnapStart ==
    LET fresh == CacheGet(cache, CACHE_KEY)
        c1 == CacheTouch(cache, CACHE_KEY)
        reset == now - requestWindowStart > RATE_LIMIT_WINDOW
        cnt == IF reset THEN 0 ELSE requestCount
        win == IF reset THEN now ELSE requestWindowStart
        misses == (IF reset THEN 0 ELSE missesInWindow) + 1
        calls == IF reset THEN 0 ELSE callsInWindow
        limitHit == cnt >= MAX_REQUESTS_PER_MINUTE
        stale == CacheGet(c1, STALE_CACHE_KEY)
    IN  /\ route = "snapshot"
        /\ SnapRoute(fresh, c1, cnt, win, misses, calls, limitHit, stale)
        /\ UNCHANGED <<now, route, pendingHist, lastOk, everOk, freshAt, histCallsNow>>

(* Snapshot route, part_001:101-156: after the upstream call *)

\* as SnapSuccess, with the Stale entry written with the Fresh TTL
SnapSuccessStaleTtl(data) ==
    /\ cache' = CacheSet(CacheSet(cache, CACHE_KEY, data, CACHE_TTL),
                         STALE_CACHE_KEY, data, CACHE_TTL)
    /\ lastResp' = Resp(SnapId, "fetched", 200, data, FALSE, FALSE, "")
    /\ lastCause' = SnapCause(data)
    /\ lastOk' = [id |-> SnapId, val |-> data]
    /\ everOk' = [everOk EXCEPT ![SnapId] = TRUE]
    /\ freshAt' = [freshAt EXCEPT ![SnapId] = now]

SnapSuccess(data) ==
    /\ cache' = CacheSet(CacheSet(cache, CACHE_KEY, data, CACHE_TTL),
                         STALE_CACHE_KEY, data, 0)
    /\ lastResp' = Resp(SnapId, "fetched", 200, data, FALSE, FALSE, "")
    /\ lastCause' = SnapCause(data)
    /\ lastOk' = [id |-> SnapId, val |-> data]
    /\ everOk' = [everOk EXCEPT ![SnapId] = TRUE]
    /\ freshAt' = [freshAt EXCEPT ![SnapId] = now]

\* as SnapFailure, answering 200 with no data when nothing is cached
SnapFailureEmpty(err) ==
    LET stale == CacheGet(cache, STALE_CACHE_KEY)
    IN  /\ cache' = CacheTouch(cache, STALE_CACHE_KEY)
        /\ lastResp' =
              IF stale # Undefined
                THEN Resp(SnapId, "stale", 200, stale, TRUE, TRUE,
                          "Serving cached data due to API rate limit")
                ELSE Resp(SnapId, "fetched", 200, Undefined, FALSE, FALSE, "")
        /\ lastCause' = err
        /\ UNCHANGED <<lastOk, everOk, freshAt>>

SnapFailure(err) ==
    LET stale == CacheGet(cache, STALE_CACHE_KEY)
    IN  /\ cache' = CacheTouch(cache, STALE_CACHE_KEY)
        /\ lastResp' =
              IF stale # Undefined
                THEN Resp(SnapId, "stale", 200, stale, TRUE, TRUE,
                          "Serving cached data due to API rate limit")
                ELSE IF err = "e429"
                        THEN Resp(SnapId, "error", 429, Undefined, FALSE, FALSE,
                                  "Rate limit exceeded. No cached data available.")
                        ELSE Resp(SnapId, "error", 500, Undefined, FALSE, FALSE,
                                  "Failed to fetch crypto data and no cached data available")
        /\ lastCause' = err
        /\ UNCHANGED <<lastOk, everOk, freshAt>>

SnapDone ==
    /\ pendingSnap > 0
    /\ pendingSnap' = pendingSnap - 1
    /\ \/ \E data \in SnapBodies : SnapSuccess(data)
       \/ \E err \in Failures : SnapFailure(err)
    /\ UNCHANGED <<now, route, requestCount, requestWindowStart, pendingHist,
                   missesInWindow, callsInWindow, histCallsNow>>

-----------------------------------------------------------------------------
(* History route, route.ts:10-45: from entry to the upstream call *)

HistStart(id) ==
    LET fresh == CacheGet(cache, HistKey(id))
    IN  /\ route = "history"
        /\ IF fresh # Undefined
             THEN /\ lastResp' = Resp(id, "fresh", 200, fresh, FALSE, FALSE, "")
                  /\ lastCause' = "none"
                  /\ UNCHANGED <<cache, pendingHist, histCallsNow>>
             ELSE /\ Pending < MaxPending
                  /\ id = HistWatched =>
                        histCallsNow < MAX_REQUESTS_PER_MINUTE + MaxOver
                  /\ cache' = CacheTouch(cache, HistKey(id))
                  /\ pendingHist' = [pendingHist EXCEPT ![id] = @ + 1]
                  /\ histCallsNow' = histCallsNow + (IF id = HistWatched THEN 1 ELSE 0)
                  /\ UNCHANGED <<lastResp, lastCause>>
        /\ UNCHANGED <<now, route, requestCount, requestWindowStart, pendingSnap,
                       missesInWindow, callsInWindow, lastOk, everOk, freshAt>>

(* History route, route.ts:47-81: after the upstream call *)

\* as HistSuccess, with the Fresh entry not written
HistSuccessNoFresh(id, body) ==
    LET result == HistResult(body)
    IN  /\ cache' = CacheSet(cache, HistStaleKey(id), result, 0)
        /\ lastResp' = Resp(id, "fetched", 200, result, FALSE, FALSE, "")
        /\ lastCause' = HistCause(body)
        /\ lastOk' = [id |-> id, val |-> result]
        /\ everOk' = [everOk EXCEPT ![id] = TRUE]
        /\ freshAt' = [freshAt EXCEPT ![id] = now]

HistSuccess(id, body) ==
    LET result == HistResult(body)
    IN  /\ cache' = CacheSet(CacheSet(cache, HistKey(id), result, CACHE_TTL),
                             HistStaleKey(id), result, 0)
        /\ lastResp' = Resp(id, "fetched", 200, result, FALSE, FALSE, "")
        /\ lastCause' = HistCause(body)
        /\ lastOk' = [id |-> id, val |-> result]
        /\ everOk' = [everOk EXCEPT ![id] = TRUE]
        /\ freshAt' = [freshAt EXCEPT ![id] = now]

HistFailure(id, err) ==
    LET stale == CacheGet(cache, HistStaleKey(id))
    IN  /\ cache' = CacheTouch(cache, HistStaleKey(id))
        /\ lastResp' =
              IF stale # Undefined
                THEN Resp(id, "stale", 200, stale, FALSE, FALSE, "")
                ELSE IF err = "e429"
                        THEN Resp(id, "error", 429, Undefined, FALSE, FALSE,
                                  "Rate limit exceeded. Please try again later.")
                        ELSE Resp(id, "error", 500, Undefined, FALSE, FALSE,
                                  "Failed to fetch historical data")
        /\ lastCause' = err
        /\ UNCHANGED <<lastOk, everOk, freshAt>>

HistDone(id) ==
    /\ pendingHist[id] > 0
    /\ pendingHist' = [pendingHist EXCEPT ![id] = @ - 1]
    /\ \/ \E body \in HistBodies(id) : HistSuccess(id, body)
       \/ \E err \in Failures : HistFailure(id, err)
    /\ UNCHANGED <<now, route, requestCount, requestWindowStart, pendingSnap,
                   missesInWindow, callsInWindow, histCallsNow>>

-----------------------------------------------------------------------------
(* Environment of the request/response routes *)

\* time passes
Advance ==
    /\ \E d \in FetchSteps : now + d <= MaxTime /\ now' = now + d
    /\ freshAt' = [r \in Resources |->
                     IF freshAt[r] >= 0 /\ now' - freshAt[r] < CACHE_TTL
                       THEN freshAt[r] ELSE -1]
    /\ UNCHANGED <<route, cache, requestCount, requestWindowStart, pendingSnap,
                   pendingHist, lastResp, lastCause, missesInWindow, callsInWindow,
                   lastOk, everOk>>
    /\ histCallsNow' = 0

\* NodeCache's periodic check of expired entries (checkperiod)
Sweep ==
    /\ cache' = CacheSweep(cache)
    /\ cache' # cache
    /\ UNCHANGED <<now, route, requestCount, requestWindowStart, pendingSnap, pendingHist,
                   lastResp, lastCause, missesInWindow, callsInWindow, lastOk, everOk,
                   freshAt, histCallsNow>>

Next ==
    \/ SnapStart /\ UNCHANGED <<streamVars, hookVars>>
    \/ SnapDone /\ UNCHANGED <<streamVars, hookVars>>
    \/ \E id \in Ids : HistStart(id) /\ UNCHANGED <<streamVars, hookVars>>
    \/ \E id \in Ids : HistDone(id) /\ UNCHANGED <<streamVars, hookVars>>
    \/ Advance /\ UNCHANGED <<streamVars, hookVars>>
    \/ Sweep /\ UNCHANGED <<streamVars, hookVars>>

Spec == Init /\ [][Next]_vars

-----------------------------------------------------------------------------
(* Stream route, error.tsx:68-235 *)

\* error.tsx:93
GateHit == now - lastFetchTime < MIN_FETCH_INTERVAL /\ cachedBTCData # Null

\* the tail of start(), error.tsx:196-213, once the first fetchAndSendPrice has
\* returned: both timers are scheduled; it is not reached when that call threw
StartTail(c, threw) ==
    IF threw
      THEN /\ st' = [st EXCEPT ![c] = "failed"]
           /\ UNCHANGED <<intervalId, beat, nextPoll, nextBeat>>
      ELSE /\ st' = [st EXCEPT ![c] = "live"]
           /\ intervalId' = [intervalId EXCEPT ![c] = "set"]
           /\ beat' = [beat EXCEPT ![c] = "set"]
           /\ nextPoll' = [nextPoll EXCEPT ![c] = now + POLL_INTERVAL]
           /\ nextBeat' = [nextBeat EXCEPT ![c] = now + HEARTBEAT_INTERVAL]

\* controller.enqueue throws once the stream is closed
Throws(c) == ctrl[c] # "open"

\* fetchAndSendPrice up to its first await or return, error.tsx:89-113 (isClosed
\* false): the gate answers from cachedBTCData, or the upstream call starts
Invoke(c) ==
    IF GateHit
      THEN /\ tick' = [tick EXCEPT ![c] =
                 [cur |-> TRUE, poll |-> st[c] = "live", called |-> FALSE,
                  threw |-> Throws(c), res |-> "none", held |-> lastGood,
                  frames |-> IF Throws(c) THEN <<>>
                             ELSE <<PriceFrame(cachedBTCData, TRUE)>>]]
           /\ unhandled' = (unhandled \/ Throws(c))
           /\ UNCHANGED <<call, lastCallAt>>
      ELSE /\ call' = [call EXCEPT ![c] = now]
           /\ lastCallAt' = now
           /\ UNCHANGED <<tick, unhandled>>

\* as StartFrames, with the welcome frame written after the first price
StartFramesLate(rest) == rest \o <<"connected">>

\* the frame types start() writes before its first await: the welcome frame,
\* error.tsx:78-83, then those of a fetchAndSendPrice answered by the gate
StartFrames(rest) == <<"connected">> \o rest

\* as Connect, with both timers scheduled before the first fetchAndSendPrice
\* has returned
ConnectEager(c) ==
    /\ st[c] = "idle"
    /\ \A d \in Conns : d < c => st[d] # "idle"
    /\ Invoke(c)
    /\ log' = [log EXCEPT ![c] =
                 Written(@, StartFrames(IF GateHit THEN Types(tick'[c].frames)
                                        ELSE <<>>))]
    /\ StartTail(c, GateHit /\ Throws(c))
    /\ UNCHANGED <<now, fetchVars, lastFetchTime, cachedBTCData, isClosed, ctrl,
                   lastGood>>

\* a client opens the stream: start(), error.tsx:76-194
Connect(c) ==
    /\ st[c] = "idle"
    /\ \A d \in Conns : d < c => st[d] # "idle"
    /\ Invoke(c)
    /\ log' = [log EXCEPT ![c] =
                 Written(@, StartFrames(IF GateHit THEN Types(tick'[c].frames)
                                        ELSE <<>>))]
    /\ IF GateHit
         THEN StartTail(c, Throws(c))
         ELSE /\ st' = [st EXCEPT ![c] = "first"]
              /\ UNCHANGED <<intervalId, beat, nextPoll, nextBeat>>
    /\ UNCHANGED <<now, fetchVars, lastFetchTime, cachedBTCData, isClosed, ctrl,
                   lastGood>>

\* what the upstream call ends with
NoBody == [bitcoin |-> FALSE, usd |-> <<>>, chg |-> <<>>]
StreamOutcomes == {[res |-> "2xx", body |-> b] : b \in StreamBodies}
                    \cup {[res |-> f, body |-> NoBody] : f \in Failures}

\* how an upstream call ended, as the handler tells the cases apart
Class(o, ok) == IF ok THEN "ok" ELSE IF o.res = "e429" THEN "e429" ELSE "fail"

\* as CatchFrames, with the held value sent as a fresh one
CatchFramesFresh(err) ==
    (IF cachedBTCData # Null
       THEN <<PriceFrame(cachedBTCData, FALSE), Frame("warning")>>
       ELSE <<Frame("error")>>)
    \o (IF err = "e429" THEN <<Frame("rate_limit")>> ELSE <<>>)

\* as CatchFrames, without the warning frame
CatchFramesNoWarning(err) ==
    (IF cachedBTCData # Null
       THEN <<PriceFrame(cachedBTCData, TRUE)>>
       ELSE <<Frame("error")>>)
    \o (IF err = "e429" THEN <<Frame("rate_limit")>> ELSE <<>>)

\* as CatchFrames, with the error frame sent whether or not a value is held
CatchFramesBoth(err) ==
    (IF cachedBTCData # Null
       THEN <<PriceFrame(cachedBTCData, TRUE), Frame("warning"), Frame("error")>>
       ELSE <<Frame("error")>>)
    \o (IF err = "e429" THEN <<Frame("rate_limit")>> ELSE <<>>)

\* as CatchFrames, with the rate_limit frame sent for every failure
CatchFramesAlwaysLimit(err) ==
    (IF cachedBTCData # Null
       THEN <<PriceFrame(cachedBTCData, TRUE), Frame("warning")>>
       ELSE <<Frame("error")>>)
    \o <<Frame("rate_limit")>>

\* the frames of the catch block, error.tsx:147-190
CatchFrames(err) ==
    (IF cachedBTCData # Null
       THEN <<PriceFrame(cachedBTCData, TRUE), Frame("warning")>>
       ELSE <<Frame("error")>>)
    \o (IF err = "e429" THEN <<Frame("rate_limit")>> ELSE <<>>)

\* fetchAndSendPrice after its await, error.tsx:115-190
CallDone(c) ==
    /\ call[c] # -1
    /\ \E o \in StreamOutcomes :
         LET ok == o.res = "2xx" /\ o.body.bitcoin
             data == BtcData(o.body)
         IN  /\ cachedBTCData' = IF ok THEN data ELSE cachedBTCData
             /\ lastFetchTime' = IF ok THEN call[c] ELSE lastFetchTime
             /\ lastGood' = IF ok THEN data ELSE lastGood
             /\ tick' = [tick EXCEPT ![c] =
                   [cur |-> call[c] = now, poll |-> st[c] = "live", called |-> TRUE,
                    threw |-> Throws(c), res |-> Class(o, ok), held |-> lastGood',
                    frames |-> IF Throws(c) THEN <<>>
                               ELSE IF ok THEN <<PriceFrame(data, FALSE)>>
                               ELSE CatchFrames(o.res)]]
    /\ log' = [log EXCEPT ![c] = Written(@, Types(tick'[c].frames))]
    /\ unhandled' = (unhandled \/ Throws(c))
    /\ IF st[c] = "first"
         THEN StartTail(c, Throws(c))
         ELSE UNCHANGED <<st, intervalId, beat, nextPoll, nextBeat>>
    /\ call' = [call EXCEPT ![c] = -1]
    /\ UNCHANGED <<now, fetchVars, isClosed, ctrl, lastCallAt>>

\* the poll timer fires: setInterval(fetchAndSendPrice, 10000), error.tsx:197
PollFire(c) ==
    /\ intervalId[c] = "set"
    /\ now >= nextPoll[c]
    /\ call[c] = -1
    /\ nextPoll' = [nextPoll EXCEPT ![c] = now + POLL_INTERVAL]
    /\ IF isClosed[c]
         THEN UNCHANGED <<call, tick, lastCallAt, unhandled>>
         ELSE Invoke(c)
    /\ log' = [log EXCEPT ![c] =
                 Written(@, IF tick'[c] # tick[c] THEN Types(tick'[c].frames)
                            ELSE <<>>)]
    /\ UNCHANGED <<now, fetchVars, lastFetchTime, cachedBTCData, st, isClosed,
                   intervalId, beat, ctrl, nextBeat, lastGood>>

\* the heartbeat timer fires, error.tsx:200-213
BeatFire(c) ==
    /\ beat[c] = "set"
    /\ now >= nextBeat[c]
    /\ nextBeat' = [nextBeat EXCEPT ![c] = now + HEARTBEAT_INTERVAL]
    /\ IF ~isClosed[c]
         THEN IF ctrl[c] = "open"
                THEN /\ log' = [log EXCEPT ![c] = Written(@, <<"heartbeat">>)]
                     /\ UNCHANGED <<isClosed, beat>>
                ELSE /\ isClosed' = [isClosed EXCEPT ![c] = TRUE]
                     /\ beat' = [beat EXCEPT ![c] = "cleared"]
                     /\ UNCHANGED log
         ELSE /\ beat' = [beat EXCEPT ![c] = "cleared"]
              /\ UNCHANGED <<isClosed, log>>
    /\ UNCHANGED <<now, fetchVars, lastFetchTime, cachedBTCData, st, intervalId, ctrl,
                   call, nextPoll, tick, lastCallAt, unhandled, lastGood>>

\* as Cancel, with one interval handle shared by all connections
CancelShared(c) ==
    /\ st[c] \in {"first", "live"}
    /\ ctrl[c] = "open"
    /\ isClosed' = [isClosed EXCEPT ![c] = TRUE]
    /\ intervalId' = [d \in Conns |-> IF intervalId[d] = "set" THEN "cleared"
                                      ELSE intervalId[d]]
    /\ ctrl' = [ctrl EXCEPT ![c] = "closed"]
    /\ UNCHANGED <<now, fetchVars, lastFetchTime, cachedBTCData, st, beat, call,
                   nextPoll, nextBeat, tick, lastCallAt, unhandled, log, lastGood>>

\* as Cancel, with isClosed and the poll interval left as they are
CancelKeepsPolling(c) ==
    /\ st[c] \in {"first", "live"}
    /\ ctrl[c] = "open"
    /\ ctrl' = [ctrl EXCEPT ![c] = "closed"]
    /\ UNCHANGED <<now, fetchVars, lastFetchTime, cachedBTCData, st, isClosed,
                   intervalId, beat, call, nextPoll, nextBeat, tick, lastCallAt,
                   unhandled, log, lastGood>>

\* the client disconnects: cancel(), error.tsx:216-223
Cancel(c) ==
    /\ st[c] \in {"first", "live"}
    /\ ctrl[c] = "open"
    /\ isClosed' = [isClosed EXCEPT ![c] = TRUE]
    /\ intervalId' = [intervalId EXCEPT ![c] = IF @ = "set" THEN "cleared" ELSE @]
    /\ ctrl' = [ctrl EXCEPT ![c] = "closed"]
    /\ UNCHANGED <<now, fetchVars, lastFetchTime, cachedBTCData, st, beat, call,
                   nextPoll, nextBeat, tick, lastCallAt, unhandled, log, lastGood>>

\* the connection's channel breaks before cancel() has run: from now on
\* controller.enqueue throws (the case the heartbeat's catch, error.tsx:205-209,
\* is written for)
SinkFail(c) ==
    /\ st[c] \in {"first", "live"}
    /\ ctrl[c] = "open"
    /\ ctrl' = [ctrl EXCEPT ![c] = "errored"]
    /\ UNCHANGED <<now, fetchVars, lastFetchTime, cachedBTCData, st, isClosed,
                   intervalId, beat, call, nextPoll, nextBeat, tick, lastCallAt,
                   unhandled, log, lastGood>>

\* time passes once every due timer has fired; an upstream call ends (answer,
\* error or timeout) less than AXIOS_TIMEOUT after it started
StreamAdvance ==
    /\ now + StreamStep <= MaxStreamTime
    /\ \A c \in Conns :
         /\ intervalId[c] = "set" => now < nextPoll[c]
         /\ beat[c] = "set" => now < nextBeat[c]
         /\ call[c] # -1 => now + StreamStep - call[c] < AXIOS_TIMEOUT
    /\ now' = now + StreamStep
    /\ tick' = [c \in Conns |-> [tick[c] EXCEPT !.cur = FALSE]]
    /\ lastCallAt' = IF lastCallAt >= 0 /\ now' - lastCallAt < MIN_FETCH_INTERVAL
                       THEN lastCallAt ELSE -1
    /\ UNCHANGED <<fetchVars, lastFetchTime, cachedBTCData, st, isClosed, intervalId,
                   beat, ctrl, call, nextPoll, nextBeat, unhandled, log, lastGood>>

StreamNext ==
    \/ \E c \in Conns : Connect(c) /\ UNCHANGED hookVars
    \/ \E c \in Conns : CallDone(c) /\ UNCHANGED hookVars
    \/ \E c \in Conns : PollFire(c) /\ UNCHANGED hookVars
    \/ \E c \in Conns : BeatFire(c) /\ UNCHANGED hookVars
    \/ \E c \in Conns : Cancel(c) /\ UNCHANGED hookVars
    \/ \E c \in Conns : SinkFail(c) /\ UNCHANGED hookVars
    \/ StreamAdvance /\ UNCHANGED hookVars

StreamSpec == StreamInit /\ [][StreamNext]_vars

-----------------------------------------------------------------------------
(* Client hook useLiveBitcoin, part_005:32-158 *)

Created == Cardinality({i \in SourceIds : sources[i] # "none"})
PendingTimeouts == {i \in SourceIds : timeouts[i] # -1}

\* connect(), part_005:45-125: close the source the ref holds, create a new
\* EventSource and store it in the ref
HookConnect ==
    /\ Created < MaxSources
    /\ sources' = [i \in SourceIds |->
                     IF i = Created + 1 THEN "connecting"
                     ELSE IF i = eventSourceRef THEN "closed"
                     ELSE sources[i]]
    /\ eventSourceRef' = Created + 1

\* the effect runs on mount, part_005:134-135
Mount ==
    /\ hookSt = "init"
    /\ hookSt' = "mounted"
    /\ HookConnect
    /\ UNCHANGED <<now, timeouts, reconnectTimeoutRef, isConnected, reconnects,
                   reachable>>

\* eventSource.onopen, part_005:56-60
OnOpen(i) ==
    /\ sources[i] = "connecting"
    /\ sources' = [sources EXCEPT ![i] = "open"]
    /\ isConnected' = TRUE
    /\ UNCHANGED <<now, hookSt, eventSourceRef, timeouts, reconnectTimeoutRef,
                   reconnects, reachable>>

\* as OnError, with no reconnect scheduled
OnErrorNoRetry(i) ==
    /\ sources[i] \in {"connecting", "open"}
    /\ ~reachable
    /\ now + RECONNECT_DELAY <= MaxHookTime
    /\ Created + Cardinality(PendingTimeouts) + (MaxReconnects - reconnects)
          < MaxSources
    /\ isConnected' = FALSE
    /\ sources' = [sources EXCEPT ![i] = "closed"]
    /\ UNCHANGED <<now, hookSt, eventSourceRef, reconnects, reachable, timeouts,
                   reconnectTimeoutRef>>

\* eventSource.onerror, part_005:106-119 (a source the hook has closed reports
\* no error; the run keeps room for the source each pending timer will create)
OnError(i) ==
    /\ sources[i] \in {"connecting", "open"}
    /\ ~reachable
    /\ now + RECONNECT_DELAY <= MaxHookTime
    /\ Created + Cardinality(PendingTimeouts) + (MaxReconnects - reconnects)
          < MaxSources
    /\ isConnected' = FALSE
    /\ sources' = [sources EXCEPT ![i] = "closed"]
    /\ timeouts' = [timeouts EXCEPT ![i] = now + RECONNECT_DELAY]
    /\ reconnectTimeoutRef' = i
    /\ UNCHANGED <<now, hookSt, eventSourceRef, reconnects, reachable>>

\* the reconnect timer fires, part_005:115-118
TimeoutFire(i) ==
    /\ timeouts[i] # -1
    /\ now >= timeouts[i]
    /\ timeouts' = [timeouts EXCEPT ![i] = -1]
    /\ HookConnect
    /\ UNCHANGED <<now, hookSt, reconnectTimeoutRef, isConnected, reconnects,
                   reachable>>

\* the component calls reconnect(), part_005:130-132
Reconnect ==
    /\ hookSt = "mounted"
    /\ reconnects < MaxReconnects
    /\ reconnects' = reconnects + 1
    /\ HookConnect
    /\ UNCHANGED <<now, hookSt, timeouts, reconnectTimeoutRef, isConnected,
                   reachable>>

\* the effect cleanup runs on unmount, part_005:138-145
Unmount ==
    /\ hookSt = "mounted"
    /\ hookSt' = "unmounted"
    /\ sources' = [i \in SourceIds |->
                     IF i = eventSourceRef THEN "closed" ELSE sources[i]]
    /\ timeouts' = [i \in SourceIds |->
                      IF i = reconnectTimeoutRef THEN -1 ELSE timeouts[i]]
    /\ UNCHANGED <<now, eventSourceRef, reconnectTimeoutRef, isConnected,
                   reconnects, reachable>>

\* from here on the server is reachable
BecomeReachable ==
    /\ ~reachable
    /\ reachable' = TRUE
    /\ UNCHANGED <<now, hookSt, sources, eventSourceRef, timeouts,
                   reconnectTimeoutRef, isConnected, reconnects>>

\* time passes, up to the next timer that is due
HookAdvance ==
    /\ \A i \in PendingTimeouts : now < timeouts[i]
    /\ \E t \in (now + 1)..(now + HookStep) :
         /\ t <= MaxHookTime
         /\ \A i \in PendingTimeouts : t <= timeouts[i]
         /\ (t = now + HookStep \/ \E i \in PendingTimeouts : t = timeouts[i])
         /\ now' = t
    /\ UNCHANGED hookVars

HookNext ==
    \/ Mount /\ UNCHANGED <<fetchVars, streamVars>>
    \/ \E i \in SourceIds : OnOpen(i) /\ UNCHANGED <<fetchVars, streamVars>>
    \/ \E i \in SourceIds : OnError(i) /\ UNCHANGED <<fetchVars, streamVars>>
    \/ \E i \in SourceIds : TimeoutFire(i) /\ UNCHANGED <<fetchVars, streamVars>>
    \/ Reconnect /\ UNCHANGED <<fetchVars, streamVars>>
    \/ Unmount /\ UNCHANGED <<fetchVars, streamVars>>
    \/ BecomeReachable /\ UNCHANGED <<fetchVars, streamVars>>
    \/ HookAdvance /\ UNCHANGED <<fetchVars, streamVars>>

\* timers fire when due, a connection attempt that does not fail opens, and
\* time passes
HookFairness ==
    /\ WF_vars(\E i \in SourceIds : TimeoutFire(i) /\ UNCHANGED <<fetchVars, streamVars>>)
    /\ WF_vars(\E i \in SourceIds : OnOpen(i) /\ UNCHANGED <<fetchVars, streamVars>>)
    /\ WF_vars(HookAdvance /\ UNCHANGED <<fetchVars, streamVars>>)

HookSpec == HookInit /\ [][HookNext]_vars /\ HookFairness

-----------------------------------------------------------------------------
(* Properties of the request/response routes *)

\* a snapshot request arriving now misses Fresh and finds the limit reached
LimitReached ==
    /\ route = "snapshot"
    /\ CacheGet(cache, CACHE_KEY) = Undefined
    /\ ~(now - requestWindowStart > RATE_LIMIT_WINDOW)
    /\ requestCount >= MAX_REQUESTS_PER_MINUTE

PendingOf(r) == IF r = SnapId THEN pendingSnap ELSE pendingHist[r]

\* C1: the step that is the (MAX+1)th Fresh miss of a throttle window starts no
\* upstream call (exactly MAX calls were made in the window) and answers from
\* the Stale tier with cached=true and stale=true.
C1_WindowCap ==
    [][(missesInWindow = MAX_REQUESTS_PER_MINUTE
          /\ missesInWindow' = MAX_REQUESTS_PER_MINUTE + 1)
        => /\ callsInWindow' = MAX_REQUESTS_PER_MINUTE
           /\ pendingSnap' = pendingSnap
           /\ lastResp'.kind = "throttled"
           /\ lastResp'.cached /\ lastResp'.stale]_vars

\* C2: while less than CACHE_TTL has passed since a successful fetch of a
\* resource wrote its Fresh entry, no step starts an upstream call for that
\* resource or changes requestCount or requestWindowStart (snapshot), and a
\* request for it is answered with the value held by its Fresh entry.
C2_CacheFirst ==
    [][\A r \in Resources :
         TtlLive(r) =>
           /\ PendingOf(r)' <= PendingOf(r)
           /\ r = SnapId => /\ requestCount' = requestCount
                            /\ requestWindowStart' = requestWindowStart
           /\ (lastResp' # lastResp /\ lastResp'.id = r
                 /\ lastResp'.kind \in {"fresh", "throttled"})
                => /\ lastResp'.kind = "fresh"
                   /\ lastResp'.status = 200
                   /\ lastResp'.data = CacheGet(cache, FreshKeyOf(r))]_vars

\* a request was answered from Fresh at a later time than the write, within the TTL
C2_Witness ==
    /\ lastResp.kind = "fresh"
    /\ TtlLive(lastResp.id)
    /\ now > freshAt[lastResp.id]
    /\ everOk[SnapId] \/ everOk[<<"bitcoin">>]

\* C3: when a snapshot request would miss Fresh, find requestCount >= MAX and
\* find Stale absent, no step starts an upstream call or increments requestCount
\* (the request fails with ExhaustedNoData instead).
C3_ExhaustedSkipsUpstream ==
    [][(LimitReached /\ CacheGet(cache, STALE_CACHE_KEY) = Undefined)
        => /\ pendingSnap' <= pendingSnap
           /\ requestCount' = requestCount]_vars

\* C4: a snapshot request that finds the self-imposed limit reached is answered
\* 200 with stale data and makes no upstream call.
C4_LimitServesStale ==
    [][(LimitReached /\ missesInWindow' # missesInWindow)
        => /\ lastResp'.kind = "throttled"
           /\ lastResp'.status = 200
           /\ lastResp'.data # Undefined
           /\ pendingSnap' = pendingSnap]_vars

\* C5: a request answered by stale fallback (after an upstream failure, or by
\* the throttle), for the resource whose upstream call was the latest to
\* succeed, carries the value of that call; the snapshot tags it cached=true,
\* stale=true with a message; such a request is never answered with an error.
C5_StaleSurvives ==
    (lastResp.kind # "none" /\ lastOk.id = lastResp.id) =>
        /\ lastResp.kind # "error"
        /\ lastResp.kind \in {"stale", "throttled"} =>
             /\ lastResp.data = lastOk.val
             /\ lastResp.status = 200
             /\ lastResp.id = SnapId =>
                  lastResp.cached /\ lastResp.stale /\ lastResp.message # ""

\* the Fresh entry has expired (TTL elapsed, entry no longer live) and a failed
\* upstream call was answered from Stale
C5_Witness ==
    /\ lastResp.kind = "stale"
    /\ lastOk.id = lastResp.id
    /\ freshAt[lastResp.id] = -1
    /\ ~Live(cache[FreshKeyOf(lastResp.id)])

\* C6: once an upstream call for a resource has succeeded, no request for that
\* resource is answered with an error (HTTP 429 or 500).
C6_AlwaysData ==
    lastResp.kind = "error" => ~everOk[lastResp.id]

\* C7: as long as no upstream call has succeeded, every response is a typed
\* error (HTTP 429 or 500, no data) and every cache entry is absent.
C7_FailsClosed ==
    (\A r \in Resources : ~everOk[r]) =>
        /\ \A k \in Keys : cache[k] = Absent
        /\ lastResp.kind \in {"none", "error"}
        /\ lastResp.kind = "error" =>
             /\ lastResp.status \in {429, 500}
             /\ lastResp.status = 429 <=> lastResp.message \in
                  {"Rate limit exceeded. No cached data available.",
                   "Rate limit exceeded. Please try again later."}
             /\ lastResp.data = Undefined

\* a failed call with nothing cached was answered with an error
C7_Witness ==
    /\ \A r \in Resources : ~everOk[r]
    /\ lastResp.kind = "error"
    /\ lastResp.status = 500
    /\ requestCount > 1

\* C8: whenever the Fresh entry of a resource is present, its Stale entry is
\* present and holds the same value.
C8_DualTier ==
    \A r \in Resources :
        Live(cache[FreshKeyOf(r)]) =>
            /\ Live(cache[StaleKeyOf(r)])
            /\ cache[StaleKeyOf(r)].v = cache[FreshKeyOf(r)].v

\* C17: the request after whose upstream call failed (rejected, or answered
\* with a malformed payload) is answered from Stale with status 200, or, when
\* Stale is absent, with an error whose status is 429 for an upstream 429 and
\* 500 for every other failure.
C17_RateLimitDistinct ==
    lastCause \in Failures \cup {"malformed"} =>
        /\ lastResp.kind \in {"stale", "error"}
        /\ lastResp.kind = "stale" =>
              (lastResp.status = 200 /\ lastResp.data # Undefined)
        /\ lastResp.kind = "error" =>
              /\ lastResp.data = Undefined
              /\ lastResp.status = (IF lastCause = "e429" THEN 429 ELSE 500)

\* the value has the fields its endpoint is expected to return
WellFormed(key, v) ==
    IF key \in {CACHE_KEY, STALE_CACHE_KEY}
      THEN v.shape = "coins"
      ELSE v.prices # <<"undefined">>

\* C18: no cache entry, Fresh or Stale, holds the value of an upstream answer
\* that lacks the expected fields, and such an answer is not returned as a
\* fetched result.
C18_MalformedNotCached ==
    /\ \A k \in Keys : Live(cache[k]) => WellFormed(k, cache[k].v)
    /\ lastCause = "malformed" => lastResp.kind # "fetched"

\* C24: requestCount never exceeds MAX_REQUESTS_PER_MINUTE, and no more than
\* MAX_REQUESTS_PER_MINUTE snapshot upstream calls are started between two
\* window resets.
C24_CountBounded ==
    /\ requestCount <= MAX_REQUESTS_PER_MINUTE
    /\ callsInWindow <= MAX_REQUESTS_PER_MINUTE

\* C25: a snapshot request that misses Fresh more than RATE_LIMIT_WINDOW after
\* requestWindowStart sets requestWindowStart to now and counts from 0, so it
\* makes its upstream call as the first of the new window and is not
\* throttled; within the window requestWindowStart is left alone, and no
\* other step changes it.
C25_WindowReset ==
    [][/\ (pendingSnap' > pendingSnap \/ missesInWindow' # missesInWindow) =>
            IF now - requestWindowStart > RATE_LIMIT_WINDOW
              THEN /\ requestWindowStart' = now
                   /\ requestCount' = 1
                   /\ pendingSnap' = pendingSnap + 1
                   /\ lastResp' = lastResp
              ELSE requestWindowStart' = requestWindowStart
       /\ requestWindowStart' # requestWindowStart =>
            /\ now - requestWindowStart > RATE_LIMIT_WINDOW
            /\ requestWindowStart' = now]_vars

\* a request arriving after the window had run out has reset it, and its
\* upstream call is in flight
C25_Witness ==
    /\ requestWindowStart > 0
    /\ requestCount = 1
    /\ pendingSnap = 1
    /\ ~everOk[SnapId]
    /\ lastResp.kind = "error"

\* C26: a history request for an id is answered only with data fetched for
\* that id (or with an error).
C26_KeysUnique ==
    (lastResp.kind \in {"fresh", "stale", "fetched"} /\ lastResp.id \in Ids) =>
        lastResp.data.prices \in
            {<<lastResp.id, 1>>, <<lastResp.id, 2>>, <<"undefined">>}

\* C27: no more than MAX_REQUESTS_PER_MINUTE upstream calls are started for
\* one history id at one clock value (so within one throttle window).
C27_HistoryThrottled ==
    histCallsNow <= MAX_REQUESTS_PER_MINUTE

\* C28: once an upstream call for a resource has succeeded, its Stale entry is
\* present for good, and it holds the value of the latest successful call
\* when that call was for this resource.
C28_StalePersists ==
    \A r \in Resources :
        everOk[r] =>
            /\ Live(cache[StaleKeyOf(r)])
            /\ lastOk.id = r => cache[StaleKeyOf(r)].v = lastOk.val

-----------------------------------------------------------------------------
(* Properties of the stream route *)

\* the price and change of the price_update frame a tick delivered
Payload(t) == [price |-> t.frames[1].price, change24h |-> t.frames[1].change24h]

\* C9: when two attached subscribers are served in the same poll tick (their
\* poll timers ran fetchAndSendPrice at the same clock value), that tick made
\* one upstream call, not one per subscriber, and both received a price_update
\* frame with the same price and change24h.
C9_FanOut ==
    \A a, b \in Conns :
        (a # b /\ tick[a].cur /\ tick[b].cur /\ tick[a].poll /\ tick[b].poll
           /\ ~tick[a].threw /\ ~tick[b].threw)
        => /\ ~(tick[a].called /\ tick[b].called)
           /\ tick[a].frames[1].type = "price_update"
           /\ tick[b].frames[1].type = "price_update"
           /\ Payload(tick[a]) = Payload(tick[b])

\* C10: a stream upstream call starts only when no other stream upstream call
\* (of any subscriber, succeeded or not) started less than MIN_FETCH_INTERVAL
\* before it.
C10_MinInterval ==
    [][(\E c \in Conns : call[c] = -1 /\ call'[c] # -1) => lastCallAt = -1]_vars

\* a fetchAndSendPrice of the connection has run to its end without throwing
Served(t) == ~t.threw /\ (t.called \/ t.frames # <<>>)

Has(t, type) == \E i \in DOMAIN t.frames : t.frames[i].type = type

Count(t, type) == Cardinality({i \in DOMAIN t.frames : t.frames[i].type = type})

\* the upstream call of the tick failed (rejected, or answered without bitcoin)
Failed(t) == t.res \in {"e429", "fail"}

\* C11: whatever has happened to the other subscribers (disconnect, failed
\* write), a subscriber that is attached with its channel open keeps both its
\* timers scheduled no further ahead than their periods, none of its ticks
\* throws, and each of its ticks delivers its frames.
C11_Isolation ==
    \A b \in Conns :
        (st[b] = "live" /\ ~isClosed[b] /\ ctrl[b] = "open") =>
            /\ intervalId[b] = "set" /\ nextPoll[b] <= now + POLL_INTERVAL
            /\ beat[b] = "set" /\ nextBeat[b] <= now + HEARTBEAT_INTERVAL
            /\ Served(tick[b])
            /\ tick[b].frames # <<>>
            /\ tick[b].frames[1].type \in {"price_update", "error"}

\* one subscriber's tick threw on its closed channel at an earlier time and
\* another subscriber's poll timer has served it now
C11_Witness ==
    \E a, b \in Conns :
        /\ a # b
        /\ ctrl[a] # "open" /\ tick[a].threw /\ ~tick[a].cur
        /\ st[b] = "live" /\ ctrl[b] = "open" /\ ~isClosed[b]
        /\ tick[b].cur /\ tick[b].poll /\ tick[b].frames # <<>>

\* C12: the first frame written to a subscriber is the connected frame, and
\* exactly one connected frame is written to each subscriber: every
\* price_update, warning, error, rate_limit and heartbeat frame comes after it.
C12_ConnectedFirst ==
    \A c \in Conns :
        /\ log[c].first \in {"none", "connected"}
        /\ log[c].connected = (IF st[c] = "idle" THEN 0 ELSE 1)
        /\ tick[c] # NoTick => log[c].first = "connected"

\* a subscriber whose first fetchAndSendPrice was answered by the gate inside
\* start() has its connected frame first
C12_Witness ==
    \E c \in Conns :
        /\ log[c].first = "connected"
        /\ ~tick[c].poll /\ ~tick[c].called
        /\ Has(tick[c], "price_update")

\* C13: a price_update frame carries cached=false exactly when the tick's own
\* upstream call succeeded; a frame served by the gate or after a failed call
\* carries cached=true; either way its price and change24h are those of the
\* upstream call that was the latest to succeed.
C13_CachedFlag ==
    \A c \in Conns : \A i \in DOMAIN tick[c].frames :
        tick[c].frames[i].type = "price_update" =>
            /\ tick[c].frames[i].cached = (tick[c].res # "ok")
            /\ tick[c].held # Null
            /\ tick[c].frames[i].price = tick[c].held.price
            /\ tick[c].frames[i].change24h = tick[c].held.change24h

\* a tick whose upstream call failed served the held value
C13_Witness ==
    \E c \in Conns :
        /\ Failed(tick[c])
        /\ Has(tick[c], "price_update")
        /\ tick[c].frames[1].cached

\* C14: a tick delivers a warning frame exactly when its upstream call failed
\* and it serves the held value in a price_update; a tick answered by the gate
\* and a tick whose call succeeded deliver none.
C14_Warning ==
    \A c \in Conns :
        Served(tick[c]) =>
            /\ Has(tick[c], "warning")
                  <=> (Failed(tick[c]) /\ Has(tick[c], "price_update"))
            /\ Has(tick[c], "warning") <=> (Failed(tick[c]) /\ tick[c].held # Null)
            /\ Count(tick[c], "warning") <= 1

\* a tick whose upstream call failed delivered price_update and warning
C14_Witness ==
    \E c \in Conns :
        /\ Served(tick[c]) /\ tick[c].res = "fail"
        /\ Has(tick[c], "warning") /\ Has(tick[c], "price_update")

\* C15: a tick that runs to its end delivers exactly one frame that is a
\* price_update or an error; it is an error exactly when the upstream call
\* failed and no fetched value is held.
C15_OneOf ==
    \A c \in Conns :
        Served(tick[c]) =>
            /\ Count(tick[c], "price_update") + Count(tick[c], "error") = 1
            /\ Has(tick[c], "error") <=> (Failed(tick[c]) /\ tick[c].held = Null)

\* a tick whose upstream call failed with nothing held delivered an error
C15_Witness ==
    \E c \in Conns :
        /\ Served(tick[c]) /\ Failed(tick[c]) /\ tick[c].held = Null
        /\ Has(tick[c], "error")

\* C16 (as stated): a rate_limit frame is delivered only by a tick whose
\* upstream call was answered 429 and that delivers an error frame, never by
\* a tick that delivers a price_update.
C16_RateLimitOnlyWithError ==
    \A c \in Conns :
        Has(tick[c], "rate_limit") =>
            /\ tick[c].res = "e429"
            /\ Has(tick[c], "error")
            /\ ~Has(tick[c], "price_update")

\* C16 (amended): a tick that runs to its end delivers a rate_limit frame
\* exactly when its upstream call was answered 429; it is the last frame of
\* the tick, after the error frame when no value is held and after the
\* price_update and warning frames when one is.
C16_RateLimitOn429 ==
    \A c \in Conns :
        Served(tick[c]) =>
            /\ Has(tick[c], "rate_limit") <=> tick[c].res = "e429"
            /\ Count(tick[c], "rate_limit") <= 1
            /\ Has(tick[c], "rate_limit") =>
                  /\ tick[c].frames[Len(tick[c].frames)].type = "rate_limit"
                  /\ Types(tick[c].frames) =
                        (IF tick[c].held = Null
                           THEN <<"error", "rate_limit">>
                           ELSE <<"price_update", "warning", "rate_limit">>)

\* a tick answered 429 while a value was held delivered price_update, warning
\* and rate_limit
C16_Witness ==
    \E c \in Conns :
        /\ Served(tick[c]) /\ tick[c].res = "e429"
        /\ Types(tick[c].frames) = <<"price_update", "warning", "rate_limit">>

\* C19: once a write to a subscriber's channel has failed (its last
\* fetchAndSendPrice threw), no step starts an upstream call on its behalf.
C19_WriteFailureRemoves ==
    [][\A c \in Conns :
         tick[c].threw => ~(call[c] = -1 /\ call'[c] # -1)]_vars

\* C20: when the upstream call of a subscriber whose client has disconnected
\* ends, nothing is written to the closed channel: the handler does not throw
\* and leaves no unhandled failure.
C20_DetachInFlight ==
    [][\A c \in Conns :
         (ctrl[c] = "closed" /\ call[c] # -1 /\ call'[c] = -1)
           => (~tick'[c].threw /\ (unhandled' => unhandled))]_vars

\* C21: once a subscription has ended (isClosed set by cancel() or by a failed
\* heartbeat write) and its heartbeat timer is no longer scheduled, its poll
\* timer is not scheduled either.
C21_TimersCancelled ==
    \A c \in Conns :
        (isClosed[c] /\ beat[c] # "set") => intervalId[c] # "set"

\* the client of the connection has not connected yet or has disconnected
Detached(c) == st[c] = "idle" \/ ctrl[c] = "closed"

\* C22: while every connection is detached, the only step that starts an
\* upstream call is the connect of a new subscriber.
C22_IdleNoPolling ==
    [][(\A c \in Conns : Detached(c)) =>
         \A c \in Conns :
            (call'[c] # call[c] /\ call'[c] # -1) => st[c] = "idle"]_vars

\* every subscriber has disconnected, one of them after its timers had been
\* scheduled, and a poll period has since run out
C22_Witness ==
    /\ \A c \in Conns : st[c] # "idle" /\ ctrl[c] = "closed"
    /\ \E c \in Conns : st[c] = "live" /\ nextPoll[c] >= 0 /\ now >= nextPoll[c]

\* C23: while the first fetchAndSendPrice of a connection is in flight (it
\* started at connect, less than a poll period ago) neither timer is
\* scheduled; the frame after connected is a price_update or an error, and it
\* has been written by the time the poll timer is scheduled.
C23_FirstFetch ==
    \A c \in Conns :
        /\ st[c] = "first" =>
              /\ intervalId[c] = "null" /\ beat[c] = "null"
              /\ call[c] # -1 /\ now - call[c] < POLL_INTERVAL
              /\ log[c].second = "none"
        /\ log[c].second \in {"none", "price_update", "error"}
        /\ intervalId[c] # "null" => log[c].second \in {"price_update", "error"}

\* the first fetch went upstream and the timers were scheduled after its
\* price_update
C23_Witness ==
    \E c \in Conns :
        /\ intervalId[c] = "set"
        /\ log[c].second = "price_update"
        /\ tick[c].called /\ ~tick[c].poll

-----------------------------------------------------------------------------
(* Properties of the client hook *)

\* C29: once the effect cleanup has run, no step creates an EventSource.
C29_NoOpenAfterTeardown ==
    [][hookSt = "unmounted" =>
         \A i \in SourceIds : sources[i] = "none" => sources'[i] = "none"]_vars

\* the hook's current EventSource is open and the hook reports connected
Connected ==
    /\ isConnected
    /\ eventSourceRef # 0
    /\ sources[eventSourceRef] = "open"

\* C30: at most one EventSource is connecting or open at any time; the step
\* in which a source reports an error leaves isConnected false and the
\* source closed and sets a timer due RECONNECT_DELAY later; a due timer
\* creates a new source; and once the server is reachable a mounted hook
\* becomes connected again unless it is unmounted.
C30_AutoReconnect ==
    /\ [](Cardinality({i \in SourceIds : sources[i] \in {"connecting", "open"}}) <= 1)
    /\ [][\A i \in SourceIds :
            /\ (sources[i] \in {"connecting", "open"} /\ sources'[i] = "closed"
                  /\ hookSt' = hookSt /\ eventSourceRef' = eventSourceRef)
                 => /\ ~isConnected'
                    /\ timeouts'[i] = now + RECONNECT_DELAY
            /\ (timeouts[i] # -1 /\ timeouts'[i] = -1 /\ hookSt' = hookSt)
                 => /\ now = timeouts[i]
                    /\ eventSourceRef' # eventSourceRef
                    /\ sources'[eventSourceRef'] = "connecting"]_vars
    /\ []((reachable /\ hookSt = "mounted") => <>(hookSt = "unmounted" \/ Connected))

\* after a connection error the reconnect timer has opened a new source, and
\* the hook is connected through it
C30_Witness ==
    /\ hookSt = "mounted"
    /\ reconnects = 0
    /\ eventSourceRef >= 2
    /\ Connected

=============================================================================
